---------------------------- MODULE Spec2Model ----------------------------
(***************************************************************************)
(* Model of smart_info (src/src/smart_info.cpp): the driver main(), the    *)
(* device listing, the smartctl report parser and the emitters.            *)
(*                                                                         *)
(* A C++ std::string is a sequence of one-character strings.  A            *)
(* std::map<string,T> is a function whose domain is the set of its keys;   *)
(* iteration over it visits the keys in ascending byte order.  A long long *)
(* is kept as sign and canonical decimal digits, so the full 64-bit range  *)
(* is represented exactly.                                                 *)
(***************************************************************************)
EXTENDS Integers, Sequences, FiniteSets, TLC

(***************************************************************************)
(* Characters                                                              *)
(***************************************************************************)

\* The characters used by the model, in ascending byte order.
Ascii ==
    <<"\t", "\n", "\f", "\r", " ", "%", "(", "+", ",", "-", ".", "/",
      "0", "1", "2", "3", "4", "5", "6", "7", "8", "9", ":", "=",
      "A", "B", "C", "D", "E", "F", "G", "H", "I", "J", "K", "L", "M",
      "N", "O", "P", "Q", "R", "S", "T", "U", "V", "W", "X", "Y", "Z",
      "[", "]", "_",
      "a", "b", "c", "d", "e", "f", "g", "h", "i", "j", "k", "l", "m",
      "n", "o", "p", "q", "r", "s", "t", "u", "v", "w", "x", "y", "z">>

Chars == {Ascii[n] : n \in 1..Len(Ascii)}

\* Position of a character in byte order (unsigned char comparison).
Code == [c \in Chars |-> CHOOSE n \in 1..Len(Ascii) : Ascii[n] = c]

UpperChars ==
    <<"A", "B", "C", "D", "E", "F", "G", "H", "I", "J", "K", "L", "M",
      "N", "O", "P", "Q", "R", "S", "T", "U", "V", "W", "X", "Y", "Z">>

LowerChars ==
    <<"a", "b", "c", "d", "e", "f", "g", "h", "i", "j", "k", "l", "m",
      "n", "o", "p", "q", "r", "s", "t", "u", "v", "w", "x", "y", "z">>

Upper == {UpperChars[n] : n \in 1..Len(UpperChars)}

Lower == {LowerChars[n] : n \in 1..Len(LowerChars)}

DigitChars == <<"0", "1", "2", "3", "4", "5", "6", "7", "8", "9">>

Digits == {DigitChars[n] : n \in 1..Len(DigitChars)}

\* isspace() in the "C" locale.
SpaceChars == {" ", "\t", "\n", "\r", "\f"}

isspace(c) == c \in SpaceChars

\* tolower() in the "C" locale.
tolower(c) ==
    IF c \in Upper
      THEN LowerChars[CHOOSE n \in 1..Len(UpperChars) : UpperChars[n] = c]
      ELSE c

(***************************************************************************)
(* Strings                                                                 *)
(***************************************************************************)

RECURSIVE ltrim(_)
ltrim(s) == IF s # <<>> /\ isspace(Head(s)) THEN ltrim(Tail(s)) ELSE s

RECURSIVE rtrim(_)
rtrim(s) ==
    IF s # <<>> /\ isspace(s[Len(s)]) THEN rtrim(SubSeq(s, 1, Len(s) - 1)) ELSE s

trim(s) == rtrim(ltrim(s))

\* s.find(c): the first position of c in s, 0 for npos.
find(s, c) ==
    IF \E n \in 1..Len(s) : s[n] = c
      THEN CHOOSE n \in 1..Len(s) : s[n] = c /\ \A m \in 1..(n - 1) : s[m] # c
      ELSE 0

\* s.substr(p + 1) where p is the (0-based) index of the character at model
\* position p: everything after that character.
substr_after(s, p) == SubSeq(s, p + 1, Len(s))

\* t.rfind(prefix, 0) == 0
starts_with(s, prefix) ==
    Len(s) >= Len(prefix) /\ SubSeq(s, 1, Len(prefix)) = prefix

\* std::string operator< : lexicographic on bytes.
RECURSIVE string_less(_, _)
string_less(a, b) ==
    IF b = <<>> THEN FALSE
    ELSE IF a = <<>> THEN TRUE
    ELSE IF Head(a) # Head(b) THEN Code[Head(a)] < Code[Head(b)]
    ELSE string_less(Tail(a), Tail(b))

\* The keys of a std::map in iteration order.
RECURSIVE map_order(_)
map_order(keys) ==
    IF keys = {} THEN <<>>
    ELSE LET least == CHOOSE k \in keys : \A o \in keys \ {k} : string_less(k, o)
         IN  <<least>> \o map_order(keys \ {least})

\* m[key] = value on a std::map.
map_put(m, key, value) ==
    [k \in DOMAIN m \cup {key} |-> IF k = key THEN value ELSE m[k]]

EmptyMap == [k \in {} |-> <<>>]

\* The first position at or after n whose character is not in class.
RECURSIVE skip(_, _, _)
skip(s, n, class) ==
    IF n <= Len(s) /\ s[n] \in class THEN skip(s, n + 1, class) ELSE n

(***************************************************************************)
(* long long and std::stoll                                                *)
(***************************************************************************)

LLONG_MAX_DIGITS == <<"9", "2", "2", "3", "3", "7", "2", "0", "3", "6", "8", "5", "4", "7", "7", "5", "8", "0", "7">>

LLONG_MIN_DIGITS == <<"9", "2", "2", "3", "3", "7", "2", "0", "3", "6", "8", "5", "4", "7", "7", "5", "8", "0", "8">>

\* A long long: sign and magnitude, the magnitude in canonical decimal digits.
LongLong(neg, mag) == [neg |-> neg, mag |-> mag]

Zero == LongLong(FALSE, <<"0">>)

RECURSIVE strip_zeros(_)
strip_zeros(d) ==
    IF Len(d) > 1 /\ Head(d) = "0" THEN strip_zeros(Tail(d)) ELSE d

\* a <= b for canonical digit strings.
RECURSIVE digits_leq(_, _)
digits_leq(a, b) ==
    IF Len(a) # Len(b) THEN Len(a) < Len(b)
    ELSE IF a = <<>> THEN TRUE
    ELSE IF Head(a) # Head(b) THEN Code[Head(a)] < Code[Head(b)]
    ELSE digits_leq(Tail(a), Tail(b))

\* std::stoll(s) for s made of an optional sign and digits: ok is FALSE where
\* stoll throws (std::invalid_argument without a digit, std::out_of_range
\* outside the long long range).
stoll(s) ==
    LET signed == s # <<>> /\ Head(s) \in {"-", "+"}
        neg    == s # <<>> /\ Head(s) = "-"
        body   == IF signed THEN Tail(s) ELSE s
        last   == skip(body, 1, Digits)
        digits == SubSeq(body, 1, last - 1)
        mag    == strip_zeros(digits)
        limit  == IF neg THEN LLONG_MIN_DIGITS ELSE LLONG_MAX_DIGITS
    IN  IF digits = <<>> THEN [ok |-> FALSE, val |-> Zero]
        ELSE IF ~digits_leq(mag, limit) THEN [ok |-> FALSE, val |-> Zero]
        ELSE [ok |-> TRUE, val |-> LongLong(neg /\ mag # <<"0">>, mag)]

(***************************************************************************)
(* parse_nvme_section                                                      *)
(***************************************************************************)

\* struct Field { string raw; string unit; bool has_num; long long num; }
Field(raw, unit, has_num, num) ==
    [raw |-> raw, unit |-> unit, has_num |-> has_num, num |-> num]

NumChars == Digits \cup {","}

UnitChars == Upper \cup Lower \cup {"%", "."}

\* regex_search(val, m, bracket_regex) for the pattern \[(.*)\] : a '[' with
\* a ']' after it and no line terminator between them.
bracket_regex(val) ==
    \E a \in 1..Len(val) : \E b \in (a + 1)..Len(val) :
        /\ val[a] = "["
        /\ val[b] = "]"
        /\ \A n \in (a + 1)..(b - 1) : val[n] \notin {"\n", "\r"}

\* regex_search(val, m, num_unit_regex) for the pattern
\*   ^\s*([-+]?[0-9,]+)(?:\s*([A-Za-z%.]+))?
\* matched tells whether the search succeeded; g1 and g2 are m[1] and m[2],
\* empty for a group that did not take part and after a failed search.
num_unit_regex(val) ==
    LET b0 == skip(val, 1, SpaceChars)
        b1 == IF b0 <= Len(val) /\ val[b0] \in {"-", "+"} THEN b0 + 1 ELSE b0
        b2 == skip(val, b1, NumChars)
        b3 == skip(val, b2, SpaceChars)
        b4 == skip(val, b3, UnitChars)
    IN  IF b2 = b1
          THEN [matched |-> FALSE, g1 |-> <<>>, g2 |-> <<>>]
          ELSE [matched |-> TRUE,
                g1 |-> SubSeq(val, b0, b2 - 1),
                g2 |-> IF b4 > b3 THEN SubSeq(val, b3, b4 - 1) ELSE <<>>]

\* num.erase(remove(num.begin(), num.end(), ','), num.end())
RECURSIVE remove_commas(_)
remove_commas(s) ==
    IF s = <<>> THEN <<>>
    ELSE IF Head(s) = "," THEN remove_commas(Tail(s))
    ELSE <<Head(s)>> \o remove_commas(Tail(s))

\* number_text without the erase: the commas reach stoll.
number_text_keeps_commas(g1) == g1

\* string num = m[1]; the commas erased; what stoll is then given.
number_text(g1) == remove_commas(g1)

\* The Field built from val.
decompose(val) ==
    LET m == num_unit_regex(val)
        n == stoll(number_text(m.g1))
    IN  IF bracket_regex(val)
          THEN IF m.matched
                 THEN Field(val, m.g1, n.ok, n.val)
                 ELSE Field(val, m.g1, FALSE, Zero)
          ELSE IF m.matched
                 THEN Field(val, m.g2, n.ok, n.val)
                 ELSE Field(val, <<>>, FALSE, Zero)

\* normalize_key with the lowercasing alone.
normalize_key_lowercase_only(key) == [n \in 1..Len(key) |-> tolower(key[n])]

\* The key of the map entry: lowercased, spaces turned into '_'.
normalize_key(key) ==
    LET lowered == [n \in 1..Len(key) |->
                       tolower(IF key[n] = " " THEN "_" ELSE key[n])]
    IN  [n \in 1..Len(key) |-> IF lowered[n] = " " THEN "_" ELSE lowered[n]]

\* One iteration of the loop over lines.
parse_nvme_line(out, l) ==
    LET p   == find(l, ":")
        key == trim(SubSeq(l, 1, p - 1))
        val == trim(substr_after(l, p))
    IN  IF p = 0 THEN out
        ELSE map_put(out, normalize_key(key), decompose(val))

RECURSIVE parse_nvme_from(_, _)
parse_nvme_from(out, lines) ==
    IF lines = <<>> THEN out
    ELSE parse_nvme_from(parse_nvme_line(out, Head(lines)), Tail(lines))

parse_nvme_section(lines) == parse_nvme_from(EmptyMap, lines)

(***************************************************************************)
(* find_smartctl, list_devices                                             *)
(***************************************************************************)

\* find_smartctl() given what "command -v smartctl" printed.
find_smartctl(p) == IF p # <<>> THEN rtrim(p) ELSE <<>>

\* The lines std::getline reads from a string stream over s.
RECURSIVE getlines(_)
getlines(s) ==
    IF s = <<>> THEN <<>>
    ELSE LET p == find(s, "\n")
         IN  IF p = 0 THEN <<s>>
             ELSE <<SubSeq(s, 1, p - 1)>> \o getlines(substr_after(s, p))

\* string token; ls >> token;
first_token(line) ==
    LET b0 == skip(line, 1, SpaceChars)
        b1 == skip(line, b0, Chars \ SpaceChars)
    IN  SubSeq(line, b0, b1 - 1)

\* devices_of_lines without the test for an empty token.
RECURSIVE devices_of_lines_keep_empty(_)
devices_of_lines_keep_empty(lines) ==
    IF lines = <<>> THEN <<>>
    ELSE LET line  == Head(lines)
             token == first_token(line)
             rest  == devices_of_lines_keep_empty(Tail(lines))
         IN  IF line = <<>> THEN rest ELSE <<token>> \o rest

RECURSIVE devices_of_lines(_)
devices_of_lines(lines) ==
    IF lines = <<>> THEN <<>>
    ELSE LET line  == Head(lines)
             token == first_token(line)
             rest  == devices_of_lines(Tail(lines))
         IN  IF line = <<>> THEN rest
             ELSE IF token # <<>> THEN <<token>> \o rest
             ELSE rest

\* list_devices() given what "smartctl --scan" printed.
list_devices(scan) == devices_of_lines(getlines(scan))

(***************************************************************************)
(* build_json_from_parsed and the plain-text report                        *)
(***************************************************************************)

K_model == <<"m", "o", "d", "e", "l">>

K_serial == <<"s", "e", "r", "i", "a", "l">>

K_firmware == <<"f", "i", "r", "m", "w", "a", "r", "e">>

K_nvme_health == <<"n", "v", "m", "e", "_", "h", "e", "a", "l", "t", "h">>

K_raw == <<"r", "a", "w">>

RawPlaceholder == <<"R", "E", "D", "A", "C", "T", "E", "D", "_", "R", "A", "W", "_", "N", "O", "T", "_", "I", "N", "C", "L", "_", "I", "F", "_", "N", "O", "T", "_", "R", "E", "Q", "U", "E", "S", "T", "E", "D">>

NotAvailable == <<"n", "/", "a">>

\* kv_order for a container that keeps model, serial, firmware in that order.
kv_order_model_first(kv) ==
    SelectSeq(<<K_model, K_serial, K_firmware>>, LAMBDA k : k \in DOMAIN kv)

\* The order in which the entries of kv are written.
kv_order(kv) == map_order(DOMAIN kv)

\* One entry of "nvme_health": raw always, value if has_num, unit if not empty.
\* An optional member is a sequence of length 0 or 1.
json_field(name, f) ==
    [name  |-> name,
     raw   |-> f.raw,
     value |-> IF f.has_num THEN <<f.num>> ELSE <<>>,
     unit  |-> IF f.unit # <<>> THEN <<f.unit>> ELSE <<>>]

json_nvme(nvme) ==
    LET order == map_order(DOMAIN nvme)
    IN  [n \in 1..Len(order) |-> json_field(order[n], nvme[order[n]])]

\* The members of the JSON object, in the order they are written.  A member
\* is a string (str) or an object (obj); texts are kept unescaped.
build_json_from_parsed(kv, nvme, include_raw) ==
    LET order == kv_order(kv)
        ids   == [n \in 1..Len(order) |->
                     [name |-> order[n], str |-> kv[order[n]], obj |-> <<>>]]
        nv    == IF DOMAIN nvme # {}
                   THEN <<[name |-> K_nvme_health, str |-> <<>>,
                           obj |-> json_nvme(nvme)]>>
                   ELSE <<>>
        rw    == IF include_raw
                   THEN <<[name |-> K_raw, str |-> RawPlaceholder, obj |-> <<>>]>>
                   ELSE <<>>
    IN  ids \o nv \o rw

\* The lines of the plain-text report.
plain_report(device, kv, nvme) ==
    LET get(k) == IF k \in DOMAIN kv THEN kv[k] ELSE NotAvailable
        order  == map_order(DOMAIN nvme)
        head   == <<<<"D", "e", "v", "i", "c", "e", ":", " ">> \o device,
                    <<"M", "o", "d", "e", "l", ":", " ">> \o get(K_model),
                    <<"S", "e", "r", "i", "a", "l", ":", " ">> \o get(K_serial),
                    <<"F", "i", "r", "m", "w", "a", "r", "e", ":", " ">> \o get(K_firmware)>>
        attrs  == [n \in 1..Len(order) |->
                      order[n] \o <<":", " ">> \o nvme[order[n]].raw]
    IN  IF DOMAIN nvme # {}
          THEN head \o <<<<>>, <<"N", "V", "M", "e", " ", "S", "M", "A", "R", "T", "/", "H", "e", "a", "l", "t", "h", ":">>>> \o attrs
          ELSE head

(***************************************************************************)
(* main: state                                                             *)
(***************************************************************************)

\* Largest number of command-line arguments after the program name.
MaxArgs == 3

\* Largest number of lines in the output of "smartctl -a".
MaxLines == 3

\* Largest number of characters in the output of "smartctl --scan".
MaxScanLen == 5

VARIABLES
    pc,          \* where main is: "args", "mode", "read", "done"
    argc,        \* number of arguments after the program name
    argi,        \* the loop index i of the argument loop
    list_mode, device, json_out, include_raw,
    smartctl,    \* the path find_smartctl returned
    cmds,        \* the commands given to exec_capture so far
    scan_out,    \* what "smartctl --scan" printed
    out,         \* the lines of the "smartctl -a" output read so far
    kv, nvme_lines, in_nvme, nvme,
    stdout,      \* what was written to std::cout
    stderr,      \* what was written to std::cerr
    exit_code    \* the value main returned, -1 while it runs

vars ==
    <<pc, argc, argi, list_mode, device, json_out, include_raw, smartctl, cmds,
      scan_out, out, kv, nvme_lines, in_nvme, nvme, stdout, stderr, exit_code>>

A_list == <<"-", "-", "l", "i", "s", "t">>

A_json == <<"-", "-", "j", "s", "o", "n">>

A_include_raw == <<"-", "-", "i", "n", "c", "l", "u", "d", "e", "-", "r", "a", "w">>

A_device == <<"-", "-", "d", "e", "v", "i", "c", "e">>

A_h == <<"-", "h">>

A_help == <<"-", "-", "h", "e", "l", "p">>

\* The argument strings tried: every option, a device path, the empty string.
Args ==
    {A_list, A_json, A_include_raw, A_device, A_h, A_help, <<"/", "d", "e", "v", "/", "s", "d", "a">>, <<>>}

\* What "command -v smartctl" may print: nothing, a blank line, a path.
WhichOutputs == {<<>>, <<"\n">>, <<"/", "u", "s", "r", "/", "s", "b", "i", "n", "/", "s", "m", "a", "r", "t", "c", "t", "l", "\n">>}

ScanAlphabet == {"a", "b", " ", "\n"}

\* What "smartctl --scan" may print.
ScanOutputs == UNION {[1..n -> ScanAlphabet] : n \in 0..MaxScanLen}

P_DeviceModel == <<"D", "e", "v", "i", "c", "e", " ", "M", "o", "d", "e", "l", ":">>

P_ModelNumber == <<"M", "o", "d", "e", "l", " ", "N", "u", "m", "b", "e", "r", ":">>

P_SerialNumber == <<"S", "e", "r", "i", "a", "l", " ", "N", "u", "m", "b", "e", "r", ":">>

P_FirmwareVersion == <<"F", "i", "r", "m", "w", "a", "r", "e", " ", "V", "e", "r", "s", "i", "o", "n", ":">>

P_SmartHealth == <<"S", "M", "A", "R", "T", "/", "H", "e", "a", "l", "t", "h", " ", "I", "n", "f", "o", "r", "m", "a", "t", "i", "o", "n">>

P_ErrorInformation == <<"E", "r", "r", "o", "r", " ", "I", "n", "f", "o", "r", "m", "a", "t", "i", "o", "n">>

P_SelfTestLog == <<"S", "e", "l", "f", "-", "t", "e", "s", "t", " ", "L", "o", "g">>

P_Equals == <<"=", "=", "=">>

\* The lines a report is made of.
ReportLines ==
    {<<"D", "e", "v", "i", "c", "e", " ", "M", "o", "d", "e", "l", ":", " ", "A">>,
     <<" ", " ", "M", "o", "d", "e", "l", " ", "N", "u", "m", "b", "e", "r", ":", " ", " ", "B", " ">>,
     <<"S", "e", "r", "i", "a", "l", " ", "N", "u", "m", "b", "e", "r", ":", " ", "S">>,
     <<"F", "i", "r", "m", "w", "a", "r", "e", " ", "V", "e", "r", "s", "i", "o", "n", ":", " ", "9", ".", "9", ".", "9">>,
     <<"S", "M", "A", "R", "T", "/", "H", "e", "a", "l", "t", "h", " ", "I", "n", "f", "o", "r", "m", "a", "t", "i", "o", "n", " ", "(", "N", "V", "M", "e", " ", "L", "o", "g", " ", "0", "x", "0", "2", ")">>,
     <<"E", "r", "r", "o", "r", " ", "I", "n", "f", "o", "r", "m", "a", "t", "i", "o", "n", " ", "(", "N", "V", "M", "e", " ", "L", "o", "g", " ", "0", "x", "0", "1", ")">>,
     <<"S", "e", "l", "f", "-", "t", "e", "s", "t", " ", "L", "o", "g">>,
     <<"=", "=", "=", " ", "S", "T", "A", "R", "T", " ", "=", "=", "=">>,
     <<"T", "e", "m", "p", "e", "r", "a", "t", "u", "r", "e", ":", " ", "4", "2", " ", "C">>,
     <<"S", "p", "a", "r", "e", ":">>,
     <<"n", "o", " ", "c", "o", "l", "o", "n">>,
     <<" ", " ">>}

UsageMessage ==
    "Usage: smart_info [--list] [--device /dev/sda] [--json] [--include-raw]"

NotFoundMessage == "smartctl not found. Install smartmontools."

NoDeviceMessage == "Please specify --device or --list"

Init ==
    /\ pc = "args"
    /\ argc \in 0..MaxArgs
    /\ argi = 1
    /\ list_mode = FALSE
    /\ device = <<>>
    /\ json_out = FALSE
    /\ include_raw = FALSE
    /\ smartctl = <<>>
    /\ cmds = <<>>
    /\ scan_out = <<>>
    /\ out = <<>>
    /\ kv = EmptyMap
    /\ nvme_lines = <<>>
    /\ in_nvme = FALSE
    /\ nvme = EmptyMap
    /\ stdout = <<>>
    /\ stderr = <<>>
    /\ exit_code = -1

(***************************************************************************)
(* main: the argument loop                                                 *)
(***************************************************************************)

\* One iteration of the argument loop, on argument a; v is the argument
\* after it, when there is one.
ParseArg ==
    /\ pc = "args"
    /\ argi <= argc
    /\ \E a \in Args : \E v \in Args :
        IF a = A_list THEN
            /\ list_mode' = TRUE
            /\ argi' = argi + 1
            /\ UNCHANGED <<pc, device, json_out, include_raw, stdout, exit_code>>
        ELSE IF a = A_json THEN
            /\ json_out' = TRUE
            /\ argi' = argi + 1
            /\ UNCHANGED <<pc, list_mode, device, include_raw, stdout, exit_code>>
        ELSE IF a = A_include_raw THEN
            /\ include_raw' = TRUE
            /\ argi' = argi + 1
            /\ UNCHANGED <<pc, list_mode, device, json_out, stdout, exit_code>>
        ELSE IF a = A_device /\ argi + 1 <= argc THEN
            /\ device' = v
            /\ argi' = argi + 2
            /\ UNCHANGED <<pc, list_mode, json_out, include_raw, stdout, exit_code>>
        ELSE IF a = A_h \/ a = A_help THEN
            /\ stdout' = <<[tag |-> "usage", text |-> UsageMessage]>>
            /\ exit_code' = 0
            /\ pc' = "done"
            /\ UNCHANGED <<argi, list_mode, device, json_out, include_raw>>
        ELSE
            /\ argi' = argi + 1
            /\ UNCHANGED <<pc, list_mode, device, json_out, include_raw, stdout,
                           exit_code>>
    /\ UNCHANGED <<argc, smartctl, cmds, scan_out, out, kv, nvme_lines, in_nvme,
                   nvme, stderr>>

(***************************************************************************)
(* main: locating smartctl, list mode, the missing device                  *)
(***************************************************************************)

\* After the argument loop: string smartctl = find_smartctl(); and the exit
\* when it is empty.
FindSmartctl ==
    /\ pc = "args"
    /\ argi > argc
    /\ \E p \in WhichOutputs :
        /\ smartctl' = find_smartctl(p)
        /\ cmds' = Append(cmds, "command -v smartctl")
        /\ IF find_smartctl(p) = <<>>
             THEN /\ stderr' = Append(stderr, NotFoundMessage)
                  /\ exit_code' = 2
                  /\ pc' = "done"
             ELSE /\ pc' = "mode"
                  /\ UNCHANGED <<stderr, exit_code>>
    /\ UNCHANGED <<argc, argi, list_mode, device, json_out, include_raw, scan_out,
                   out, kv, nvme_lines, in_nvme, nvme, stdout>>

\* What list mode writes for the devices devs.
list_output(devs, as_json) ==
    IF as_json
      THEN <<[tag |-> "devices_json", devices |-> devs]>>
      ELSE [n \in 1..Len(devs) |-> [tag |-> "line", text |-> devs[n]]]

\* if (list_mode) { ... return 0; }
ListMode ==
    /\ pc = "mode"
    /\ list_mode
    /\ \E scan \in ScanOutputs :
        /\ scan_out' = scan
        /\ cmds' = Append(cmds, "smartctl --scan")
        /\ stdout' = stdout \o list_output(list_devices(scan), json_out)
    /\ exit_code' = 0
    /\ pc' = "done"
    /\ UNCHANGED <<argc, argi, list_mode, device, json_out, include_raw, smartctl,
                   out, kv, nvme_lines, in_nvme, nvme, stderr>>

\* NoDevice with the device test placed before the list-mode branch.
NoDevice_BeforeList ==
    /\ pc = "mode"
    /\ device = <<>>
    /\ stderr' = Append(stderr, NoDeviceMessage)
    /\ exit_code' = 2
    /\ pc' = "done"
    /\ UNCHANGED <<argc, argi, list_mode, device, json_out, include_raw, smartctl,
                   cmds, scan_out, out, kv, nvme_lines, in_nvme, nvme, stdout>>

\* if (device.empty()) { ... return 2; }
NoDevice ==
    /\ pc = "mode"
    /\ ~list_mode
    /\ device = <<>>
    /\ stderr' = Append(stderr, NoDeviceMessage)
    /\ exit_code' = 2
    /\ pc' = "done"
    /\ UNCHANGED <<argc, argi, list_mode, device, json_out, include_raw, smartctl,
                   cmds, scan_out, out, kv, nvme_lines, in_nvme, nvme, stdout>>

\* string out = run_smartctl(smartctl, device);
RunSmartctl ==
    /\ pc = "mode"
    /\ ~list_mode
    /\ device # <<>>
    /\ cmds' = Append(cmds, "smartctl -a")
    /\ pc' = "read"
    /\ UNCHANGED <<argc, argi, list_mode, device, json_out, include_raw, smartctl,
                   scan_out, out, kv, nvme_lines, in_nvme, nvme, stdout, stderr,
                   exit_code>>

(***************************************************************************)
(* main: the loop over the lines of the report                             *)
(***************************************************************************)

is_model(t) == starts_with(t, P_DeviceModel) \/ starts_with(t, P_ModelNumber)

is_serial(t) == starts_with(t, P_SerialNumber)

is_firmware(t) == starts_with(t, P_FirmwareVersion)

is_identity(t) == is_model(t) \/ is_serial(t) \/ is_firmware(t)

is_marker(t) == starts_with(t, P_SmartHealth)

is_terminator(t) ==
    \/ starts_with(t, P_ErrorInformation)
    \/ starts_with(t, P_SelfTestLog)
    \/ starts_with(t, P_Equals)

\* The text stored for an identity line: after the first ':', trimmed.
identity_value(t) == trim(substr_after(t, find(t, ":")))

\* kv after the trimmed, non-empty line t.
line_kv(m, t) ==
    IF is_model(t) THEN map_put(m, K_model, identity_value(t))
    ELSE IF is_serial(t) THEN map_put(m, K_serial, identity_value(t))
    ELSE IF is_firmware(t) THEN map_put(m, K_firmware, identity_value(t))
    ELSE m

\* line_in_nvme with the "===" terminator forgotten.
line_in_nvme_without_equals(section, t) ==
    IF is_identity(t) THEN section
    ELSE IF is_marker(t) THEN TRUE
    ELSE IF /\ section
            /\ \/ starts_with(t, P_ErrorInformation)
               \/ starts_with(t, P_SelfTestLog)
           THEN FALSE
    ELSE section

\* in_nvme after the trimmed, non-empty line t.
line_in_nvme(section, t) ==
    IF is_identity(t) THEN section
    ELSE IF is_marker(t) THEN TRUE
    ELSE IF section /\ is_terminator(t) THEN FALSE
    ELSE section

\* nvme_lines after the trimmed, non-empty line t.
line_nvme_lines(lines, t, section) ==
    IF is_identity(t) \/ is_marker(t) THEN lines
    ELSE IF section /\ ~is_terminator(t) THEN Append(lines, t)
    ELSE lines

\* One iteration of while (getline(ss, line)).
ReadLine ==
    /\ pc = "read"
    /\ Len(out) < MaxLines
    /\ \E line \in ReportLines :
        LET t == trim(line)
        IN  /\ out' = Append(out, line)
            /\ IF t = <<>>
                 THEN UNCHANGED <<kv, in_nvme, nvme_lines>>
                 ELSE /\ kv' = line_kv(kv, t)
                      /\ in_nvme' = line_in_nvme(in_nvme, t)
                      /\ nvme_lines' = line_nvme_lines(nvme_lines, t, in_nvme)
    /\ UNCHANGED <<pc, argc, argi, list_mode, device, json_out, include_raw,
                   smartctl, cmds, scan_out, nvme, stdout, stderr, exit_code>>

(***************************************************************************)
(* main: after the last line                                               *)
(***************************************************************************)

\* getline fails; nvme = parse_nvme_section(nvme_lines); the JSON report.
ReportJson ==
    /\ pc = "read"
    /\ json_out
    /\ nvme' = parse_nvme_section(nvme_lines)
    /\ stdout' = Append(stdout,
                        [tag |-> "json",
                         members |-> build_json_from_parsed(
                                         kv, parse_nvme_section(nvme_lines),
                                         include_raw)])
    /\ exit_code' = 0
    /\ pc' = "done"
    /\ UNCHANGED <<argc, argi, list_mode, device, json_out, include_raw, smartctl,
                   cmds, scan_out, out, kv, nvme_lines, in_nvme, stderr>>

\* getline fails; nvme = parse_nvme_section(nvme_lines); the plain report.
ReportPlain ==
    /\ pc = "read"
    /\ ~json_out
    /\ nvme' = parse_nvme_section(nvme_lines)
    /\ stdout' = stdout \o
                 LET lines == plain_report(device, kv,
                                           parse_nvme_section(nvme_lines))
                 IN  [n \in 1..Len(lines) |-> [tag |-> "line", text |-> lines[n]]]
    /\ exit_code' = 0
    /\ pc' = "done"
    /\ UNCHANGED <<argc, argi, list_mode, device, json_out, include_raw, smartctl,
                   cmds, scan_out, out, kv, nvme_lines, in_nvme, stderr>>

Next ==
    \/ ParseArg
    \/ FindSmartctl
    \/ ListMode
    \/ NoDevice
    \/ RunSmartctl
    \/ ReadLine
    \/ ReportJson
    \/ ReportPlain

Spec == Init /\ [][Next]_vars


(***************************************************************************)
(* The report step on its own: main at the end of the line loop, with the  *)
(* values the loop leaves in kv and nvme_lines drawn from bounded sets.    *)
(***************************************************************************)

\* Largest number of characters in a generated attribute value.
MaxValueLen == 4

\* Largest number of characters in a generated attribute key.
MaxKeyLen == 3

ValueAlphabet == {"0", "7", ",", "-", "+", "x", " ", "[", "]"}

KeyAlphabet == {"A", "b", " ", "_", "\t", "/"}

Strings(alphabet, max) == UNION {[1..n -> alphabet] : n \in 0..max}

\* Attribute lines as the line loop stores them: trimmed and not empty.
GeneratedLines ==
    {l \in {<<"v", ":">> \o v : v \in Strings(ValueAlphabet, MaxValueLen)}
           \cup {k \o <<":", " ", "1">> : k \in Strings(KeyAlphabet, MaxKeyLen)} :
        trim(l) = l}

\* The NVMe block of a typical report, with values at the ends of the
\* long long range and a repeated key.
TypicalLines ==
    <<<<"C", "r", "i", "t", "i", "c", "a", "l", " ", "W", "a", "r", "n", "i", "n", "g", ":", " ", " ", " ", " ", " ", " ", " ", " ", " ", " ", " ", " ", " ", " ", " ", " ", " ", " ", " ", "0", "x", "0", "0">>,
      <<"T", "e", "m", "p", "e", "r", "a", "t", "u", "r", "e", ":", " ", " ", " ", " ", " ", " ", " ", " ", " ", " ", " ", " ", " ", " ", " ", " ", " ", " ", " ", " ", " ", " ", " ", " ", "4", "2", " ", "C", "e", "l", "s", "i", "u", "s">>,
      <<"A", "v", "a", "i", "l", "a", "b", "l", "e", " ", "S", "p", "a", "r", "e", ":", " ", " ", " ", " ", " ", " ", " ", " ", " ", " ", " ", " ", " ", " ", " ", " ", " ", " ", " ", " ", "1", "0", "0", "%">>,
      <<"D", "a", "t", "a", " ", "U", "n", "i", "t", "s", " ", "R", "e", "a", "d", ":", " ", " ", " ", " ", " ", " ", " ", " ", " ", " ", " ", " ", " ", " ", " ", " ", " ", " ", " ", " ", "1", ",", "2", "3", "4", ",", "5", "6", "7", " ", "[", "6", "3", "2", " ", "G", "B", "]">>,
      <<"P", "o", "w", "e", "r", " ", "O", "n", " ", "H", "o", "u", "r", "s", ":", " ", " ", " ", " ", " ", " ", " ", " ", " ", " ", " ", " ", " ", " ", " ", " ", " ", " ", " ", " ", " ", "1", ",", "0", "2", "4">>,
      <<"T", "h", "e", "r", "m", "a", "l", " ", "S", "t", "a", "t", "e", ":", " ", "U", "n", "k", "n", "o", "w", "n">>,
      <<"W", "e", "a", "r", " ", "L", "e", "v", "e", "l", ":", " ", "N", "/", "A">>,
      <<"M", "e", "d", "i", "a", " ", "E", "r", "r", "o", "r", "s", ":", " ", "9", ",", "2", "2", "3", ",", "3", "7", "2", ",", "0", "3", "6", ",", "8", "5", "4", ",", "7", "7", "5", ",", "8", "0", "7">>,
      <<"H", "o", "s", "t", " ", "R", "e", "a", "d", "s", ":", " ", "9", ",", "2", "2", "3", ",", "3", "7", "2", ",", "0", "3", "6", ",", "8", "5", "4", ",", "7", "7", "5", ",", "8", "0", "8">>,
      <<"O", "f", "f", "s", "e", "t", " ", "L", "o", "w", ":", " ", "-", "9", "2", "2", "3", "3", "7", "2", "0", "3", "6", "8", "5", "4", "7", "7", "5", "8", "0", "8">>,
      <<"O", "f", "f", "s", "e", "t", " ", "U", "n", "d", "e", "r", ":", " ", "-", "9", "2", "2", "3", "3", "7", "2", "0", "3", "6", "8", "5", "4", "7", "7", "5", "8", "0", "9">>,
      <<"N", "o", " ", "c", "o", "l", "o", "n", " ", "h", "e", "r", "e">>,
      <<"t", "e", "m", "p", "e", "r", "a", "t", "u", "r", "e", ":", " ", "0", "0", "7">>>>

NvmeInputs == {<<l>> : l \in GeneratedLines} \cup {TypicalLines}

MarkerLine == <<"S", "M", "A", "R", "T", "/", "H", "e", "a", "l", "t", "h", " ", "I", "n", "f", "o", "r", "m", "a", "t", "i", "o", "n", " ", "(", "N", "V", "M", "e", " ", "L", "o", "g", " ", "0", "x", "0", "2", ")">>

\* main after the argument loop, find_smartctl and run_smartctl, for the
\* arguments --device /dev/sda [--json] [--include-raw].
InitAfterRun(as_json, with_raw) ==
    /\ pc = "read"
    /\ argc = 2 + (IF as_json THEN 1 ELSE 0) + (IF with_raw THEN 1 ELSE 0)
    /\ argi = argc + 1
    /\ list_mode = FALSE
    /\ device = <<"/", "d", "e", "v", "/", "s", "d", "a">>
    /\ json_out = as_json
    /\ include_raw = with_raw
    /\ smartctl = <<"/", "u", "s", "r", "/", "s", "b", "i", "n", "/", "s", "m", "a", "r", "t", "c", "t", "l">>
    /\ cmds = <<"command -v smartctl", "smartctl -a">>
    /\ scan_out = <<>>
    /\ nvme = EmptyMap
    /\ stdout = <<>>
    /\ stderr = <<>>
    /\ exit_code = -1

\* The line loop has read the marker line and then the lines of one input.
InitNvme ==
    /\ \E as_json \in BOOLEAN : InitAfterRun(as_json, FALSE)
    /\ nvme_lines \in NvmeInputs
    /\ out = <<MarkerLine>> \o nvme_lines
    /\ kv = EmptyMap
    /\ in_nvme = TRUE

NextReport == ReportJson \/ ReportPlain

SpecNvme == InitNvme /\ [][NextReport]_vars

IdentityValues == {<<>>, <<"A">>, <<"S", "T", "2", "0", "0", "0", "D", "M", "0", "0", "8", "-", "2", "F", "R", "1", "0", "2">>}

\* The identity lines that leave m in kv.
identity_lines(m) ==
    (IF K_model \in DOMAIN m THEN <<P_ModelNumber \o m[K_model]>> ELSE <<>>)
    \o (IF K_serial \in DOMAIN m THEN <<P_SerialNumber \o m[K_serial]>> ELSE <<>>)
    \o (IF K_firmware \in DOMAIN m
          THEN <<P_FirmwareVersion \o m[K_firmware]>> ELSE <<>>)

KvChoices ==
    UNION {[keys -> IdentityValues] : keys \in SUBSET {K_model, K_serial, K_firmware}}

SectionChoices == {<<>>, <<<<"T", "e", "m", "p", "e", "r", "a", "t", "u", "r", "e", ":", " ", "4", "2", " ", "C">>>>, <<<<"B", ":", " ", "1">>, <<"a", ":", " ", "2">>>>}

\* The line loop has read identity lines and then, possibly, an NVMe block.
InitJson ==
    /\ \E as_json \in BOOLEAN : \E with_raw \in BOOLEAN :
           InitAfterRun(as_json, with_raw)
    /\ kv \in KvChoices
    /\ nvme_lines \in SectionChoices
    /\ out = identity_lines(kv)
             \o (IF nvme_lines = <<>> THEN <<>> ELSE <<MarkerLine>> \o nvme_lines)
    /\ in_nvme = (nvme_lines # <<>>)

SpecJson == InitJson /\ [][NextReport]_vars

(***************************************************************************)
(* Properties.  The definitions below restate the specification's wording  *)
(* on the input and the output; they do not use the operators of the       *)
(* parser.                                                                 *)
(***************************************************************************)

\* main returned after printing the usage line.
HelpReached == pc = "done" /\ stdout # <<>> /\ stdout[1].tag = "usage"

\* main returned after reading a report and writing it.
Reported == pc = "done" /\ cmds # <<>> /\ cmds[Len(cmds)] = "smartctl -a"

IsIdentityLine(t) ==
    \/ starts_with(t, <<"D", "e", "v", "i", "c", "e", " ", "M", "o", "d", "e", "l", ":">>)
    \/ starts_with(t, <<"M", "o", "d", "e", "l", " ", "N", "u", "m", "b", "e", "r", ":">>)
    \/ starts_with(t, <<"S", "e", "r", "i", "a", "l", " ", "N", "u", "m", "b", "e", "r", ":">>)
    \/ starts_with(t, <<"F", "i", "r", "m", "w", "a", "r", "e", " ", "V", "e", "r", "s", "i", "o", "n", ":">>)

IsMarkerLine(t) == starts_with(t, <<"S", "M", "A", "R", "T", "/", "H", "e", "a", "l", "t", "h", " ", "I", "n", "f", "o", "r", "m", "a", "t", "i", "o", "n">>)

IsTerminatorLine(t) ==
    \/ starts_with(t, <<"E", "r", "r", "o", "r", " ", "I", "n", "f", "o", "r", "m", "a", "t", "i", "o", "n">>)
    \/ starts_with(t, <<"S", "e", "l", "f", "-", "t", "e", "s", "t", " ", "L", "o", "g">>)
    \/ starts_with(t, <<"=", "=", "=">>)

\* The section state after the given lines, by the transition table.
RECURSIVE SectionAfter(_)
SectionAfter(lines) ==
    IF lines = <<>> THEN "HEADER"
    ELSE LET before == SectionAfter(SubSeq(lines, 1, Len(lines) - 1))
             t      == trim(lines[Len(lines)])
         IN  IF before = "HEADER" /\ IsMarkerLine(t) THEN "NVME_HEALTH"
             ELSE IF before = "NVME_HEALTH" /\ IsTerminatorLine(t) THEN "HEADER"
             ELSE before

\* The trimmed lines read while the state is NVME_HEALTH, the empty lines,
\* the marker lines and the terminator lines left out.
RECURSIVE LinesInSection(_)
LinesInSection(lines) ==
    IF lines = <<>> THEN <<>>
    ELSE LET front == SubSeq(lines, 1, Len(lines) - 1)
             t     == trim(lines[Len(lines)])
         IN  IF /\ SectionAfter(front) = "NVME_HEALTH"
                /\ t # <<>>
                /\ ~IsMarkerLine(t)
                /\ ~IsTerminatorLine(t)
               THEN Append(LinesInSection(front), t)
               ELSE LinesInSection(front)

RECURSIVE IsSubsequence(_, _)
IsSubsequence(a, b) ==
    IF a = <<>> THEN TRUE
    ELSE IF b = <<>> THEN FALSE
    ELSE IF Head(a) = Head(b) THEN IsSubsequence(Tail(a), Tail(b))
    ELSE IsSubsequence(a, Tail(b))

LowerCase(c) ==
    IF \E n \in 1..26 : UpperChars[n] = c
      THEN LowerChars[CHOOSE n \in 1..26 : UpperChars[n] = c]
      ELSE c

\* k is key in lowercase with every space replaced by '_'.
IsNormalFormOf(k, key) ==
    /\ Len(k) = Len(key)
    /\ \A n \in 1..Len(key) :
           k[n] = (IF key[n] = " " THEN "_" ELSE LowerCase(key[n]))

\* The text before the first ':' of an attribute line, trimmed.
KeyText(l) == trim(SubSeq(l, 1, find(l, ":") - 1))

HasColon(l) == \E n \in 1..Len(l) : l[n] = ":"

\* C1: the identity fields are assigned only while the section state is
\* HEADER: reading a line that starts with an identity prefix while the
\* state is NVME_HEALTH leaves model, serial and firmware unchanged.
C1_IdentityOnlyInHeader ==
    [][(/\ pc = "read"
        /\ Len(out') = Len(out) + 1
        /\ SectionAfter(out) = "NVME_HEALTH"
        /\ IsIdentityLine(trim(out'[Len(out')])))
       => kv' = kv]_vars

\* C2: a line "key: val" whose val is empty after trimming adds no entry, so
\* every entry of nvme has a non-empty raw.
C2_NoEmptyRaw ==
    Reported => \A k \in DOMAIN nvme : nvme[k].raw # <<>>

\* v holds one bracketed annotation: a single '[' and, after it, a single ']'.
HasBracket(v) ==
    /\ Cardinality({n \in 1..Len(v) : v[n] = "["}) = 1
    /\ Cardinality({n \in 1..Len(v) : v[n] = "]"}) = 1
    /\ \E a \in 1..Len(v) : \E b \in (a + 1)..Len(v) : v[a] = "[" /\ v[b] = "]"

\* The text between the '[' and the ']'.
BracketContent(v) ==
    LET a == CHOOSE n \in 1..Len(v) : v[n] = "["
        b == CHOOSE n \in 1..Len(v) : v[n] = "]"
    IN  SubSeq(v, a + 1, b - 1)

\* C3: for a value with a bracketed annotation the unit is the text between
\* the brackets, whether or not a leading number was parsed.
C3_BracketUnit ==
    Reported =>
        \A k \in DOMAIN nvme :
            HasBracket(nvme[k].raw) =>
                nvme[k].unit = BracketContent(nvme[k].raw)

\* v is a text such as Unknown, N/A or 0x00: it is a hexadecimal literal, or
\* its first character is no digit, sign or thousands separator.
IsNonNumericText(v) ==
    /\ v # <<>>
    /\ \/ v[1] \notin Digits \cup {"-", "+", ","}
       \/ Len(v) >= 2 /\ v[1] = "0" /\ v[2] \in {"x", "X"}

\* C4: a value that does not begin with a decimal integer (Unknown, N/A,
\* 0x00) yields raw equal to the text, no value and no unit.
C4_NonNumericValue ==
    Reported =>
        \A k \in DOMAIN nvme :
            IsNonNumericText(nvme[k].raw) =>
                ~nvme[k].has_num /\ nvme[k].unit = <<>>

\* The leading numeric token of a trimmed text: an optional sign, then
\* digits and commas, as far as they go.
LeadingToken(v) ==
    LET s    == IF v # <<>> /\ v[1] \in {"-", "+"} THEN 1 ELSE 0
        ends == {n \in s..Len(v) :
                    \A m \in (s + 1)..n : v[m] \in Digits \cup {","}}
        last == CHOOSE n \in ends : \A m \in ends : m <= n
    IN  SubSeq(v, 1, last)

\* The digits of a token: the sign and the commas stripped.
TokenDigits(tok) == SelectSeq(tok, LAMBDA c : c \in Digits)

IsNegative(tok) == tok # <<>> /\ tok[1] = "-"

DigitValue(c) == (CHOOSE n \in 1..10 : DigitChars[n] = c) - 1

\* The number written by at most nine digits.
RECURSIVE SmallNumber(_)
SmallNumber(d) ==
    IF d = <<>> THEN 0
    ELSE 10 * SmallNumber(SubSeq(d, 1, Len(d) - 1)) + DigitValue(d[Len(d)])

\* The digits without their leading zeros.
Significant(d) ==
    LET nz == {n \in 1..Len(d) : d[n] # "0"}
    IN  IF nz = {} THEN <<>>
        ELSE SubSeq(d, CHOOSE n \in nz : \A m \in nz : n <= m, Len(d))

\* The number written by at most 27 digits, in three groups of nine.
Groups(d) ==
    LET s == Significant(d)
        n == Len(s)
    IN  <<SmallNumber(SubSeq(s, 1, n - 18)),
          SmallNumber(SubSeq(s, IF n > 18 THEN n - 17 ELSE 1, n - 9)),
          SmallNumber(SubSeq(s, IF n > 9 THEN n - 8 ELSE 1, n))>>

GroupsLeq(a, b) ==
    \/ a[1] < b[1]
    \/ a[1] = b[1] /\ a[2] < b[2]
    \/ a[1] = b[1] /\ a[2] = b[2] /\ a[3] <= b[3]

\* The digits d, with the sign, write a signed 64-bit integer:
\* -9223372036854775808 .. 9223372036854775807.
ParsesAsInt64(negative, d) ==
    /\ d # <<>>
    /\ Len(Significant(d)) <= 19
    /\ GroupsLeq(Groups(d),
                 <<9, 223372036, IF negative THEN 854775808 ELSE 854775807>>)

\* C5: if value is present, the leading numeric token of raw with its commas
\* stripped writes value, up to sign (and leading zeros); if that token does
\* not parse as a signed 64-bit integer, value is absent.
C5_ValueIsLeadingToken ==
    Reported =>
        \A k \in DOMAIN nvme :
            LET f   == nvme[k]
                tok == LeadingToken(f.raw)
                d   == TokenDigits(tok)
            IN  /\ f.has_num =>
                     /\ d # <<>>
                     /\ Len(Significant(d)) <= 19
                     /\ Groups(d) = Groups(f.num.mag)
                     /\ f.num.neg => IsNegative(tok)
                /\ ~ParsesAsInt64(IsNegative(tok), d) => ~f.has_num

\* C5 at work: one value parsed from a token with commas, another absent
\* because its token is outside the 64-bit range.
C5_Witness ==
    /\ Reported
    /\ \E k \in DOMAIN nvme :
           /\ nvme[k].has_num
           /\ \E n \in 1..Len(LeadingToken(nvme[k].raw)) :
                  LeadingToken(nvme[k].raw)[n] = ","
    /\ \E k \in DOMAIN nvme :
           /\ ~nvme[k].has_num
           /\ Len(Significant(TokenDigits(LeadingToken(nvme[k].raw)))) = 19

\* The names of the members of the JSON object written, in order.
MemberNames ==
    [n \in 1..Len(stdout[1].members) |-> stdout[1].members[n].name]

JsonReported == Reported /\ json_out /\ Len(stdout) = 1 /\ stdout[1].tag = "json"

\* The identity fields that are present, in the given order, then
\* nvme_health if nvme is not empty, then raw if it was requested.
ExpectedMembers(identity_order) ==
    SelectSeq(identity_order, LAMBDA k : k \in DOMAIN kv)
    \o (IF DOMAIN nvme # {} THEN <<<<"n", "v", "m", "e", "_", "h", "e", "a", "l", "t", "h">>>> ELSE <<>>)
    \o (IF include_raw THEN <<<<"r", "a", "w">>>> ELSE <<>>)

\* C6: the members of the JSON object are the identity fields that are
\* present in the order model, serial, firmware, then nvme_health exactly when
\* nvme is not empty, then raw exactly when it was requested.
C6_ModelSerialFirmware ==
    JsonReported =>
        MemberNames = ExpectedMembers(<<<<"m", "o", "d", "e", "l">>, <<"s", "e", "r", "i", "a", "l">>, <<"f", "i", "r", "m", "w", "a", "r", "e">>>>)

\* C6, amended: the identity fields that are present come in the order
\* firmware, model, serial (ascending key order); the rest as claimed.
C6_FirmwareModelSerial ==
    JsonReported =>
        MemberNames = ExpectedMembers(<<<<"f", "i", "r", "m", "w", "a", "r", "e">>, <<"m", "o", "d", "e", "l">>, <<"s", "e", "r", "i", "a", "l">>>>)

\* C6 at work: a JSON report with all three identity fields, NVMe
\* attributes and raw requested.
C6_Witness ==
    /\ JsonReported
    /\ Cardinality(DOMAIN kv) = 3
    /\ DOMAIN nvme # {}
    /\ include_raw
    /\ Len(stdout[1].members) = 5

\* C7: without -h/--help reached, main returns 2 exactly when smartctl was not
\* located or neither --list nor a (non-empty) --device value was given, and
\* 0 otherwise; when smartctl was not located the fixed message is all that
\* is written to standard error and nothing is written to standard output.
C7_ExitStatus ==
    (pc = "done" /\ ~HelpReached) =>
        /\ exit_code \in {0, 2}
        /\ exit_code = 2 <=> (smartctl = <<>> \/ (~list_mode /\ device = <<>>))
        /\ smartctl = <<>> =>
               /\ stderr = <<"smartctl not found. Install smartmontools.">>
               /\ stdout = <<>>

\* C7 at work: smartctl is not located although --list, --json and a device
\* were given.
C7_Witness ==
    /\ pc = "done"
    /\ ~HelpReached
    /\ smartctl = <<>>
    /\ list_mode
    /\ device # <<>>
    /\ exit_code = 2

\* C8: the section state starts as HEADER and follows the transition table;
\* a line adds an entry to nvme only if it is read in NVME_HEALTH and is
\* neither a marker nor a terminator line; without a marker line nvme is
\* empty.
C8_SectionState ==
    /\ in_nvme = (SectionAfter(out) = "NVME_HEALTH")
    /\ IsSubsequence(nvme_lines, LinesInSection(out))
    /\ Reported =>
           /\ \A k \in DOMAIN nvme :
                  \E n \in 1..Len(LinesInSection(out)) :
                      /\ HasColon(LinesInSection(out)[n])
                      /\ IsNormalFormOf(k, KeyText(LinesInSection(out)[n]))
           /\ (\A n \in 1..Len(out) : ~IsMarkerLine(trim(out[n]))) =>
                  DOMAIN nvme = {}

IsAttributeLine(l) ==
    /\ HasColon(l)
    /\ ~IsIdentityLine(trim(l))
    /\ ~IsMarkerLine(trim(l))
    /\ ~IsTerminatorLine(trim(l))

\* C8 at work: an attribute line read in HEADER, the marker, another
\* attribute line read in NVME_HEALTH: only the second is in nvme.
C8_Witness ==
    /\ Reported
    /\ Len(out) = 3
    /\ IsAttributeLine(out[1])
    /\ IsMarkerLine(trim(out[2]))
    /\ IsAttributeLine(out[3])
    /\ KeyText(out[1]) # KeyText(out[3])
    /\ Cardinality(DOMAIN nvme) = 1

\* C9: key normalization (lowercase, every space replaced by '_', the other
\* characters kept) is idempotent, and a normalized key holds no uppercase
\* letter and no space.
C9_KeyNormalization ==
    Reported =>
        /\ \A n \in 1..Len(nvme_lines) :
               HasColon(nvme_lines[n]) =>
                   \E k \in DOMAIN nvme :
                       IsNormalFormOf(k, KeyText(nvme_lines[n]))
        /\ \A k \in DOMAIN nvme :
               /\ normalize_key(k) = k
               /\ \A n \in 1..Len(k) : k[n] \notin Upper \cup {" "}

\* C9 at work: a key with an uppercase letter and a space was normalized.
C9_Witness ==
    /\ Reported
    /\ \E n \in 1..Len(nvme_lines) :
           /\ HasColon(nvme_lines[n])
           /\ \E a, b \in 1..Len(KeyText(nvme_lines[n])) :
                  /\ KeyText(nvme_lines[n])[a] \in Upper
                  /\ KeyText(nvme_lines[n])[b] = " "
    /\ DOMAIN nvme # {}

\* The positions at which a line of the scan output starts.
LineStarts(s) == {n \in 1..Len(s) : n = 1 \/ s[n - 1] = "\n"}

\* The first whitespace-delimited token of the line that starts at n, empty
\* if the line has none.
TokenOfLineAt(s, n) ==
    LET stop  == CHOOSE e \in n..(Len(s) + 1) :
                     /\ e = Len(s) + 1 \/ s[e] = "\n"
                     /\ \A m \in n..(e - 1) : s[m] # "\n"
        inked == {m \in n..(stop - 1) : s[m] \notin {" ", "\t", "\r", "\f"}}
        from  == CHOOSE m \in inked : \A o \in inked : m <= o
        upto  == CHOOSE e \in from..stop :
                     /\ e = stop \/ e \notin inked
                     /\ \A m \in from..(e - 1) : m \in inked
    IN  IF inked = {} THEN <<>> ELSE SubSeq(s, from, upto - 1)

\* The first tokens of the lines that are not empty or whitespace-only, in
\* input order.
RECURSIVE TokensFrom(_, _)
TokensFrom(s, starts) ==
    IF starts = {} THEN <<>>
    ELSE LET n == CHOOSE a \in starts : \A b \in starts : a <= b
             t == TokenOfLineAt(s, n)
         IN  (IF t = <<>> THEN <<>> ELSE <<t>>) \o TokensFrom(s, starts \ {n})

ExpectedHandles(s) == TokensFrom(s, LineStarts(s))

\* The device handles list mode wrote.
EmittedHandles ==
    IF json_out
      THEN stdout[1].devices
      ELSE [n \in 1..Len(stdout) |-> stdout[n].text]

Listed == pc = "done" /\ ~HelpReached /\ list_mode /\ smartctl # <<>>

\* C10: in list mode, with smartctl located, the handles written are the
\* first tokens of the lines of the scan output that are not empty or
\* whitespace-only, in input order; a --device argument is ignored, main
\* returns 0 and "smartctl -a" is not run.
C10_ListMode ==
    Listed =>
        /\ EmittedHandles = ExpectedHandles(scan_out)
        /\ exit_code = 0
        /\ stderr = <<>>
        /\ cmds = <<"command -v smartctl", "smartctl --scan">>
        /\ out = <<>>

\* C10 at work: --list with a --device value; the scan output has a
\* whitespace-only line and two handles.
C10_Witness ==
    /\ Listed
    /\ device # <<>>
    /\ Len(EmittedHandles) = 2
    /\ \E n \in LineStarts(scan_out) :
           /\ scan_out[n] = " "
           /\ TokenOfLineAt(scan_out, n) = <<>>

=============================================================================
